---- MODULE Spec2Model ----
(***************************************************************************)
(* A model of ps-rclru (src/src/lib.rs): LRU<K, V>, a bounded cache that   *)
(* keeps an ordered list of (key, value) usage records and a map from key  *)
(* to (value, count), and that evicts the least recently pushed key unless *)
(* Rc::strong_count says the value is still held elsewhere.                *)
(*                                                                         *)
(* Keys are compared by content (K: Eq + Hash), so a key is a number.      *)
(* Values are Rc<V> allocations: a value is the identity of an allocation, *)
(* and its strong count is the number of handles to it: one per list       *)
(* record, one per map entry, one for a record popped by gc and not yet    *)
(* dropped, and ext[v] handles owned by the calling program.               *)
(***************************************************************************)
EXTENDS Integers, Sequences, FiniteSets, TLC

\* ---- bounds of the model ----
MaxList == 4        \* push is not called once the list holds MaxList records
MaxCap == 2         \* max_items is drawn from 0..MaxCap
MaxExt == 1         \* the caller owns at most MaxExt handles to one value

Keys == {1, 2, 3}
Values == {1, 2, 3}

VARIABLES
    list,       \* LinkedList<(Rc<K>, Rc<V>)>: Seq of [key, value]
    map,        \* HashMap<Rc<K>, (Rc<V>, usize)>: key -> [value, count]
    num_items,  \* usize
    max_items,  \* usize, set by new()
    ext,        \* value -> number of handles the caller owns
    call,       \* the last call and what it returned (observation only)
    quiet,      \* no call has run yet while the caller held a cached value
    pushed,     \* the keys pushed so far, while quiet and pairwise distinct
    recency     \* the cached keys, least recently pushed first, while quiet

vars == <<list, map, num_items, max_items, ext, call, quiet, pushed, recency>>

\* Option<(Rc<K>, Rc<V>)>
None == <<>>
Some(key, value) == <<key, value>>

Record(key, value) == [key |-> key, value |-> value]
Entry(value, count) == [value |-> value, count |-> count]

EmptyMap == [k \in {} |-> Entry(0, 0)]
MapInsert(m, key, e) == [k \in (DOMAIN m) \cup {key} |-> IF k = key THEN e ELSE m[k]]
MapRemove(m, key) == [k \in (DOMAIN m) \ {key} |-> m[k]]

\* The number of list records that hold a handle to the value.
Occurrences(l, value) == Cardinality({i \in 1..Len(l) : l[i].value = value})

\* Rc::strong_count(&value): handles in the list, in the map, owned by the
\* caller, and `local` handles held by the running call itself.
strong_count(l, m, e, value, local) ==
    Occurrences(l, value)
    + Cardinality({k \in DOMAIN m : m[k].value = value})
    + e[value]
    + local

\* Mutant of LoopCond: the iteration count is compared with <= for <.
LoopCondOffByOne(iterations, len, n, max) == iterations <= len /\ n > max

\* Mutant of LoopCond: the test of num_items against max_items is left out.
LoopCondLenOnly(iterations, len, n, max) == iterations < len

\* lib.rs:54: the loop condition of gc; len is list.len() at the test.
LoopCond(iterations, len, n, max) == iterations < len /\ n > max

\* Mutant of MultipleReferences: the last record of a key counts as stale.
MultipleReferencesOrOne(count) == count >= 1

\* lib.rs:59
MultipleReferences(count) == count > 1

\* Mutant of ReferenceOutside: the cache's own two handles count as outside.
ReferenceOutsideOwn(strong) == strong > 1

\* Mutant of ReferenceOutside: one handle too many is taken for the cache's.
ReferenceOutsideOff(strong) == strong > 3

\* lib.rs:62
ReferenceOutside(strong) == strong > 2

\* The result of an eviction pass: the fields it leaves, what it returns,
\* and (observation only) how many iterations ran and whether the branch of
\* lib.rs:72-74 (a popped key with no map entry) was taken.
GcResult(l, m, n, ret, iterations, orphan) ==
    [list |-> l, map |-> m, num_items |-> n, ret |-> ret,
     iterations |-> iterations, orphan |-> orphan]

RECURSIVE gc_loop(_, _, _, _, _, _)

\* Mutant of EvictFromCache: the pass goes on after an eviction and returns
\* the last pair it evicted.
EvictAndContinue(rest, m, n, max, e, key, value, iterations) ==
    LET r == gc_loop(rest, MapRemove(m, key), n - 1, max, e, iterations)
    IN  IF r.ret = None THEN [r EXCEPT !.ret = Some(key, value)] ELSE r

\* Mutant of EvictFromCache: the evicted record is read with front() and
\* stays at the head of the list.
EvictKeepRecord(rest, m, n, max, e, key, value, iterations) ==
    GcResult(<<Record(key, value)>> \o rest, MapRemove(m, key), n - 1,
             Some(key, value), iterations, FALSE)

\* Mutant of EvictFromCache: num_items is not decremented.
EvictKeepCount(rest, m, n, max, e, key, value, iterations) ==
    GcResult(rest, MapRemove(m, key), n, Some(key, value), iterations, FALSE)

\* lib.rs:66-70: remove the entry, count it out and return the pair; the
\* pass ends here (max and e are what a pass that went on would need).
EvictFromCache(rest, m, n, max, e, key, value, iterations) ==
    GcResult(rest, MapRemove(m, key), n - 1, Some(key, value), iterations, FALSE)

\* lib.rs:51-82, from the state (l, m, n) with `iterations` already done.
gc_loop(l, m, n, max, e, iterations) ==
    IF ~LoopCond(iterations, Len(l), n, max)
    THEN GcResult(l, m, n, None, iterations, FALSE)
    ELSE IF l = <<>>
    THEN GcResult(l, m, n, None, iterations + 1, FALSE)
    ELSE LET key == Head(l).key
             value == Head(l).value
             rest == Tail(l)
         IN  IF key \in DOMAIN m
             THEN IF MultipleReferences(m[key].count)
                  THEN gc_loop(rest,
                               [m EXCEPT ![key].count = @ - 1],
                               n, max, e, iterations + 1)
                  ELSE IF ReferenceOutside(strong_count(rest, m, e, value, 1))
                  THEN gc_loop(Append(rest, Record(key, value)),
                               m, n, max, e, iterations + 1)
                  ELSE EvictFromCache(rest, m, n, max, e, key, value,
                                      iterations + 1)
             ELSE GcResult(rest, m, n, Some(key, value), iterations + 1, TRUE)

gc(l, m, n, max, e) == gc_loop(l, m, n, max, e, 0)

\* lib.rs:43-49
maybe_gc(l, m, n, max, e) ==
    IF n > max
    THEN gc(l, m, n, max, e)
    ELSE GcResult(l, m, n, None, 0, FALSE)

\* Mutant of push: a push of a key that has an entry does not count the
\* new record in the entry.
push_unmarked(l, m, n, max, e, key, value) ==
    IF key \in DOMAIN m
    THEN maybe_gc(Append(l, Record(key, value)), m, n, max, e)
    ELSE maybe_gc(Append(l, Record(key, value)),
                  MapInsert(m, key, Entry(value, 1)),
                  n + 1, max, e)

\* Mutant of push: a new key is not counted in num_items.
push_uncounted(l, m, n, max, e, key, value) ==
    IF key \in DOMAIN m
    THEN maybe_gc(Append(l, Record(key, value)),
                  [m EXCEPT ![key].count = @ + 1],
                  n, max, e)
    ELSE maybe_gc(Append(l, Record(key, value)),
                  MapInsert(m, key, Entry(value, 1)),
                  n, max, e)

\* Mutant of push: a key that has an entry is counted in num_items again.
push_recounted(l, m, n, max, e, key, value) ==
    IF key \in DOMAIN m
    THEN maybe_gc(Append(l, Record(key, value)),
                  [m EXCEPT ![key].count = @ + 1],
                  n + 1, max, e)
    ELSE maybe_gc(Append(l, Record(key, value)),
                  MapInsert(m, key, Entry(value, 1)),
                  n + 1, max, e)

\* lib.rs:25-40; e is the caller's handles while the call runs.
push(l, m, n, max, e, key, value) ==
    IF key \in DOMAIN m
    THEN maybe_gc(Append(l, Record(key, value)),
                  [m EXCEPT ![key].count = @ + 1],
                  n, max, e)
    ELSE maybe_gc(Append(l, Record(key, value)),
                  MapInsert(m, key, Entry(value, 1)),
                  n + 1, max, e)

\* ---- the calling program ----

Live(value) == strong_count(list, map, ext, value, 0) > 0

\* Rc::new returns an allocation no handle refers to; allocations are
\* interchangeable, so the model takes the least free one.
IsFresh(value) ==
    /\ ~Live(value)
    /\ \A w \in Values : w < value => Live(w)

\* lib.rs:24: "Each key must map to exactly one value": a caller pushes a
\* key that has a map entry with the value handle of that entry.
SameValue(key, value) == key \in DOMAIN map => map[key].value = value

\* The caller's handles to `value` while push runs: the argument is either
\* a clone of a handle the caller keeps (keep) or the handle itself (moved).
ExtAfterPass(value, keep) ==
    IF keep
    THEN [ext EXCEPT ![value] = IF @ = 0 THEN 1 ELSE @]
    ELSE [ext EXCEPT ![value] = IF @ = 0 THEN 0 ELSE @ - 1]

Observe(op, key, value, r) ==
    [op |-> op, key |-> key, value |-> value, ret |-> r.ret,
     iterations |-> r.iterations, orphan |-> r.orphan]

Quiet(op) ==
    [op |-> op, key |-> 0, value |-> 0, ret |-> None,
     iterations |-> 0, orphan |-> FALSE]

\* ---- observation of a run (never read by the cache) ----

\* No value of the cache, nor the value being pushed, is held by the caller
\* while the call runs (e is the caller's handles during the call).
NoneHeld(e, value) ==
    /\ \A k \in DOMAIN map : e[map[k].value] = 0
    /\ value \in Values => e[value] = 0

\* 0 marks a run that is no longer quiet or has pushed some key twice.
Spoiled == {0}
NotePushed(q, key) ==
    IF q /\ 0 \notin pushed /\ key \notin pushed
    THEN pushed \cup {key}
    ELSE Spoiled

Touch(rec, key) == SelectSeq(rec, LAMBDA k : k # key) \o <<key>>
Forget(rec, ret) ==
    IF ret = None THEN rec ELSE SelectSeq(rec, LAMBDA k : k # ret[1])

\* LRU::new(max_items)
Init ==
    /\ list = <<>>
    /\ map = EmptyMap
    /\ num_items = 0
    /\ max_items \in 0..MaxCap
    /\ ext = [v \in Values |-> 0]
    /\ call = Quiet("new")
    /\ quiet = TRUE
    /\ pushed = {}
    /\ recency = <<>>

\* lru.push(key, value): value is a handle the caller owns or Rc::new(..).
Push(key, value, keep) ==
    /\ Len(list) < MaxList
    /\ ext[value] > 0 \/ IsFresh(value)
    /\ SameValue(key, value)
    /\ LET e == ExtAfterPass(value, keep)
           r == push(list, map, num_items, max_items, e, key, value)
       IN  /\ list' = r.list
           /\ map' = r.map
           /\ num_items' = r.num_items
           /\ ext' = e
           /\ call' = Observe("push", key, value, r)
           /\ quiet' = (quiet /\ NoneHeld(e, value))
           /\ pushed' = NotePushed(quiet /\ NoneHeld(e, value), key)
           /\ recency' = IF quiet /\ NoneHeld(e, value)
                         THEN Forget(Touch(recency, key), r.ret)
                         ELSE <<>>
    /\ UNCHANGED max_items

\* lru.gc()
Gc ==
    /\ LET r == gc(list, map, num_items, max_items, ext)
       IN  /\ list' = r.list
           /\ map' = r.map
           /\ num_items' = r.num_items
           /\ call' = Observe("gc", 0, 0, r)
           /\ quiet' = (quiet /\ NoneHeld(ext, 0))
           /\ pushed' = IF quiet /\ NoneHeld(ext, 0) THEN pushed ELSE Spoiled
           /\ recency' = IF quiet /\ NoneHeld(ext, 0)
                         THEN Forget(recency, r.ret)
                         ELSE <<>>
    /\ UNCHANGED <<max_items, ext>>

\* The caller takes one more handle to a live value: Rc::clone of a handle
\* it owns, or Weak::upgrade of a weak handle it kept.
Hold(value) ==
    /\ Live(value)
    /\ ext[value] < MaxExt
    /\ ext' = [ext EXCEPT ![value] = @ + 1]
    /\ call' = Quiet("hold")
    /\ UNCHANGED <<list, map, num_items, max_items, quiet, pushed, recency>>

\* The caller drops a handle.
Release(value) ==
    /\ ext[value] > 0
    /\ ext' = [ext EXCEPT ![value] = @ - 1]
    /\ call' = Quiet("release")
    /\ UNCHANGED <<list, map, num_items, max_items, quiet, pushed, recency>>

Next ==
    \/ \E key \in Keys, value \in Values, keep \in BOOLEAN : Push(key, value, keep)
    \/ Gc
    \/ \E value \in Values : Hold(value)
    \/ \E value \in Values : Release(value)

Spec == Init /\ [][Next]_vars

\* ---- vocabulary of the properties ----

IsCall(c) == c.op \in {"push", "gc"}
Resident == DOMAIN map
HeldOutside(e, value) == e[value] > 0
SoleRecords == \A k \in DOMAIN map : map[k].count = 1
KeyRecords(l, key) == Cardinality({i \in 1..Len(l) : l[i].key = key})

\* ---- C1 ----
\* C1: a push or gc call never evicts an entry whose value the caller holds
\* while the call runs: a key that was in the map stays there with the same
\* value, a key pushed with a held value is in the map when push returns,
\* and the call does not return that (key, value) pair.  (Every push of the
\* model passes the value handle of the key's entry, see SameValue.)
C1_HeldNeverEvicted ==
    [][IsCall(call') =>
        /\ \A k \in DOMAIN map :
              HeldOutside(ext', map[k].value) =>
                /\ k \in DOMAIN map'
                /\ map'[k].value = map[k].value
                /\ call'.ret # Some(k, map[k].value)
        /\ (call'.op = "push" /\ HeldOutside(ext', call'.value)) =>
                /\ call'.key \in DOMAIN map'
                /\ map'[call'.key].value = call'.value
                /\ call'.ret # Some(call'.key, call'.value)
      ]_vars

\* An eviction pass popped a held sole record, put it back at the tail and
\* went on to evict a later entry.
C1_Witness ==
    /\ IsCall(call)
    /\ call.ret # None
    /\ call.iterations >= 2
    /\ list # <<>>
    /\ HeldOutside(ext, list[Len(list)].value)
    /\ map[list[Len(list)].key].count = 1
    /\ Len(list) = num_items

\* ---- C2 ----
\* C2: after every push of a run that pushed pairwise distinct keys and in
\* which no call ran while the caller held a value of the cache, num_items
\* is at most max_items.
C2_CapacityBound ==
    (call.op = "push" /\ 0 \notin pushed) => num_items <= max_items

\* ---- C3 ----
\* C3: in a run in which no call ran while the caller held a value of the
\* cache, the key a push returns is the key of the map, the pushed one
\* included, whose most recent push is the oldest.
C3_EvictsLeastRecent ==
    [][(call'.op = "push" /\ quiet' /\ call'.ret # None) =>
        call'.ret[1] = Head(Touch(recency, call'.key))
      ]_vars

\* ---- C4 ----
\* C4: with exactly max_items keys in the map, every one of their values
\* held by the caller, a push of a new key whose value the caller holds too
\* returns None, removes no key from the map and leaves num_items at
\* max_items + 1.
C4_AllHeldPush ==
    [][(/\ call'.op = "push"
        /\ Cardinality(DOMAIN map) = max_items
        /\ call'.key \notin DOMAIN map
        /\ \A k \in DOMAIN map : HeldOutside(ext', map[k].value)
        /\ HeldOutside(ext', call'.value)) =>
        /\ call'.ret = None
        /\ DOMAIN map' = DOMAIN map \cup {call'.key}
        /\ num_items' = max_items + 1
      ]_vars

\* A push into a full cache of held values scanned every record and found
\* nothing to evict.
C4_Witness ==
    /\ call.op = "push"
    /\ call.ret = None
    /\ max_items >= 1
    /\ num_items = max_items + 1
    /\ Len(list) = num_items
    /\ call.iterations = Len(list)
    /\ map[call.key].count = 1
    /\ \A k \in DOMAIN map : HeldOutside(ext, map[k].value)

\* ---- C5 ----
\* The first record of l, head to tail, whose value the caller does not hold.
FirstFree(l, e) ==
    CHOOSE i \in 1..Len(l) :
        /\ ~HeldOutside(e, l[i].value)
        /\ \A j \in 1..(i - 1) : HeldOutside(e, l[j].value)

\* An eviction pass that starts with the list l and ends in the next state
\* evicts the first record not held and moves the held ones before it to
\* the tail, in their order.
EvictsFirstFree(l, e) ==
    LET i == FirstFree(l, e)
    IN  /\ call'.ret = Some(l[i].key, l[i].value)
        /\ list' = SubSeq(l, i + 1, Len(l)) \o SubSeq(l, 1, i - 1)
        /\ l[i].key \notin DOMAIN map'
        /\ num_items' = Len(l) - 1

\* C5: when num_items exceeds max_items, every key has count 1 and some
\* value of the cache is not held by the caller, the eviction pass of gc,
\* or of push (which starts once the pushed record is in), evicts the first
\* record whose value is not held and moves the held records before it to
\* the tail in their order.
C5_FirstFreeEvicted ==
    [][/\ (/\ call'.op = "gc"
            /\ num_items > max_items
            /\ SoleRecords
            /\ \E k \in DOMAIN map : ~HeldOutside(ext, map[k].value))
           => EvictsFirstFree(list, ext)
       /\ (/\ call'.op = "push"
            /\ call'.key \notin DOMAIN map
            /\ num_items + 1 > max_items
            /\ SoleRecords
            /\ \/ ~HeldOutside(ext', call'.value)
               \/ \E k \in DOMAIN map : ~HeldOutside(ext', map[k].value))
           => EvictsFirstFree(Append(list, Record(call'.key, call'.value)), ext')
      ]_vars

\* ---- C6 ----
\* C6: a push or gc call removes at most one key from the map; num_items
\* after gc is at least num_items before it minus 1, so a gc that starts
\* with num_items >= max_items + 2 ends with num_items > max_items.
C6_AtMostOneEviction ==
    [][IsCall(call') =>
        /\ Cardinality(DOMAIN map \ DOMAIN map') <= 1
        /\ call'.op = "gc" =>
              /\ num_items' >= num_items - 1
              /\ num_items >= max_items + 2 => num_items' > max_items
      ]_vars

\* A gc call that evicted an entry and left the cache over its capacity.
C6_Witness ==
    /\ call.op = "gc"
    /\ call.ret # None
    /\ num_items > max_items

\* ---- C7 ----
\* The map's keys and num_items when the eviction pass of the call that
\* ends in the next state starts.
KeysAtPass == IF call'.op = "push" THEN DOMAIN map \cup {call'.key} ELSE DOMAIN map
CountAtPass ==
    IF call'.op = "push" /\ call'.key \notin DOMAIN map
    THEN num_items + 1
    ELSE num_items

\* C7: a call that returns (k, v) removed exactly the entry of k from the
\* map and decremented num_items, v is the value of that entry and no
\* record of k is left in the list; a call that returns None removed no key
\* and left num_items as it was.
C7_ReturnIffEvicted ==
    [][IsCall(call') =>
        IF call'.ret # None
        THEN /\ call'.ret[1] \in KeysAtPass
             /\ DOMAIN map' = KeysAtPass \ {call'.ret[1]}
             /\ num_items' = CountAtPass - 1
             /\ KeyRecords(list', call'.ret[1]) = 0
        ELSE /\ DOMAIN map' = KeysAtPass
             /\ num_items' = CountAtPass
      ]_vars

\* A push returned the pair of another key after discarding stale records.
C7_Witness ==
    /\ call.op = "push"
    /\ call.ret # None
    /\ call.ret[1] # call.key
    /\ call.iterations >= 2
    /\ call.ret[1] \notin DOMAIN map
    /\ num_items = max_items

\* ---- C8 ----
\* C8: gc called with an empty list or with num_items <= max_items returns
\* None and leaves the list, the map and num_items as they were, stale
\* records in the list included.
C8_GcNoOp ==
    [][(call'.op = "gc" /\ (list = <<>> \/ num_items <= max_items)) =>
        /\ call'.ret = None
        /\ list' = list
        /\ map' = map
        /\ num_items' = num_items
      ]_vars

\* gc returned None at once on a list that holds stale records.
C8_Witness ==
    /\ call.op = "gc"
    /\ call.ret = None
    /\ call.iterations = 0
    /\ num_items <= max_items
    /\ Len(list) > num_items
    /\ num_items >= 1

\* ---- C9 ----
\* C9: (I1) in every state a call leaves, every key of the map has a count
\* of at least 1 that equals the number of records of that key in the list.
C9_CountIsRecords ==
    \A k \in DOMAIN map :
        /\ map[k].count >= 1
        /\ map[k].count = KeyRecords(list, k)

\* The same key pushed twice: one entry of count 2, two records.
C9_Witness ==
    /\ call.op = "push"
    /\ DOMAIN map = {call.key}
    /\ map[call.key].count = 2
    /\ Len(list) = 2
    /\ num_items = 1

\* ---- C10 ----
\* C10: (I2) in every state a call leaves, num_items is the number of keys
\* of the map, however many records the list holds.
C10_NumItemsIsMapSize == num_items = Cardinality(DOMAIN map)

\* Two keys in the map and more records than keys in the list.
C10_Witness ==
    /\ IsCall(call)
    /\ num_items = 2
    /\ Cardinality(DOMAIN map) = 2
    /\ Len(list) > 2

\* ---- C11 ----
\* The handles the cache itself holds: to a value, one per list record and
\* one per map entry that hold it; to a key, one per list record of the key
\* (lib.rs:28, 35) and one for the key of its map entry (lib.rs:36).
cache_value_handles(l, m, value) ==
    strong_count(l, m, [v \in Values |-> 0], value, 0)
cache_key_handles(l, m, key) ==
    KeyRecords(l, key) + (IF key \in DOMAIN m THEN 1 ELSE 0)
Unshared(m, key) == \A k \in DOMAIN m : k # key => m[k].value # m[key].value

\* C11: for every key of the map whose value no other key uses, the cache
\* holds count + 1 handles to the value and count + 1 handles to the key;
\* so with a sole record the cache holds exactly 2 handles to the value
\* (the entry's and the record's, the popped one during a pass).
C11_CacheHandles ==
    \A k \in DOMAIN map :
        /\ cache_key_handles(list, map, k) = map[k].count + 1
        /\ Unshared(map, k) =>
              /\ cache_value_handles(list, map, map[k].value) = map[k].count + 1
              /\ map[k].count = 1 =>
                    strong_count(list, map, ext, map[k].value, 0) = 2 + ext[map[k].value]

\* tests::test_reference_count_handling: a key pushed twice while the caller
\* keeps a handle: strong count 4, of which the cache holds 3.
C11_Witness ==
    /\ call.op = "push"
    /\ DOMAIN map = {call.key}
    /\ map[call.key].count = 2
    /\ ext[call.value] = 1
    /\ strong_count(list, map, ext, call.value, 0) = 4
    /\ cache_value_handles(list, map, call.value) = 3

\* ---- C12 ----
\* The first record an eviction pass pops when it starts with the list l, the
\* map m and n keys: a sole record whose value the caller does not hold (e)
\* is evicted by the pass that ends in the next state.
HeadEvicted(l, m, n, e) ==
    (/\ n > max_items
     /\ l # <<>>
     /\ Head(l).key \in DOMAIN m
     /\ m[Head(l).key].count = 1
     /\ ~HeldOutside(e, Head(l).value)) =>
        /\ call'.ret = Some(Head(l).key, Head(l).value)
        /\ Head(l).key \notin DOMAIN map'
        /\ num_items' = n - 1

\* C12: in every reachable state, value handles shared by two keys
\* included, an eviction pass that pops a record whose key has count 1 and
\* whose value has no holder but the cache evicts that entry: it removes the
\* entry, decrements num_items and returns the pair.  Stated for the first
\* record the pass pops, in gc and in the pass that push runs.
C12_UnheldSoleEvicted ==
    [][/\ call'.op = "gc" => HeadEvicted(list, map, num_items, ext)
       /\ call'.op = "push" =>
             LET r == Record(call'.key, call'.value)
             IN  IF call'.key \in DOMAIN map
                 THEN HeadEvicted(Append(list, r),
                                  [map EXCEPT ![call'.key].count = @ + 1],
                                  num_items, ext')
                 ELSE HeadEvicted(Append(list, r),
                                  MapInsert(map, call'.key, Entry(call'.value, 1)),
                                  num_items + 1, ext')
      ]_vars

\* ---- C13 ----
\* Each key of the map has a value handle of its own.
OwnValues(m) == \A a, b \in DOMAIN m : a # b => m[a].value # m[b].value

\* C13: after every push, pushes of keys that have an entry included, of a
\* run in which each key has its own value handle and no call ran while
\* the caller held a value of the cache, num_items is at most max_items.
C13_CapacityBoundWithRepush ==
    (call.op = "push" /\ quiet /\ OwnValues(map)) => num_items <= max_items

\* ---- C14 ----
\* The length of the list when the eviction pass of the call that ends in
\* the next state starts.
LenAtPass == IF call'.op = "push" THEN Len(list) + 1 ELSE Len(list)

\* C14: every gc call, and the pass that push runs, ends after at most L
\* iterations, L the length of the list when the pass starts, also when
\* every record popped is put back; the list is no longer than L after it.
C14_IterationsBounded ==
    [][IsCall(call') =>
        /\ call'.iterations <= LenAtPass
        /\ Len(list') <= LenAtPass
      ]_vars

\* gc popped and put back every record of a cache whose values are all held.
C14_Witness ==
    /\ call.op = "gc"
    /\ call.ret = None
    /\ Len(list) >= 2
    /\ call.iterations = Len(list)
    /\ num_items > max_items
    /\ \A i \in 1..Len(list) : HeldOutside(ext, list[i].value)

\* ---- C15 ----
\* C15 (as stated): after push(k, v) of a key k that has an entry before
\* the call, num_items equals its value before the call.
C15_RepushKeepsCount ==
    [][(call'.op = "push" /\ call'.key \in DOMAIN map) =>
        num_items' = num_items
      ]_vars

\* C15 (amended): after push(k, v) of a key k that has an entry before the
\* call, num_items equals its value before the call when push returns None
\* and that value minus 1 when push returns an evicted pair; it is
\* unchanged whenever it did not exceed max_items before the call.
C15_RepushCountsOnlyEviction ==
    [][(call'.op = "push" /\ call'.key \in DOMAIN map) =>
        /\ num_items' = IF call'.ret = None THEN num_items ELSE num_items - 1
        /\ num_items <= max_items => num_items' = num_items
      ]_vars

\* A push of a key that had an entry returned the pair of another key.
C15_Witness ==
    /\ call.op = "push"
    /\ call.ret # None
    /\ call.key \in DOMAIN map
    /\ map[call.key].count >= 2
    /\ num_items >= max_items

\* ---- C16 ----
\* C16: in every state reachable from new() by push and gc calls, whatever
\* the caller holds, every record of the list has a key that is in the
\* map, and no pass has taken the branch of lib.rs:72-74 that returns a
\* popped record whose key has no entry.
C16_NoOrphanRecord ==
    /\ \A i \in 1..Len(list) : list[i].key \in DOMAIN map
    /\ ~call.orphan

\* A pass evicted an entry and left stale records and held values behind.
C16_Witness ==
    /\ IsCall(call)
    /\ call.ret # None
    /\ call.iterations >= 2
    /\ Len(list) > num_items
    /\ \E i \in 1..Len(list) : HeldOutside(ext, list[i].value)

\* ---- C17 ----
\* The caller calls gc again and again and does nothing else, from a state
\* in which num_items exceeds max_items, no value of the cache is held by
\* the caller and each key has its own value handle.
Collect ==
    /\ num_items > max_items
    /\ NoneHeld(ext, 0)
    /\ OwnValues(map)
    /\ LET r == gc(list, map, num_items, max_items, ext)
       IN  /\ list' = r.list
           /\ map' = r.map
           /\ num_items' = r.num_items
           /\ call' = Observe("collect", 0, 0, r)
    /\ UNCHANGED <<max_items, ext, quiet, pushed, recency>>

\* Any run of the cache, until the caller starts to collect.
DrainNext ==
    \/ call.op # "collect" /\ Next
    \/ Collect

\* A caller that has started to collect goes on while gc has an effect.
SpecDrain == Init /\ [][DrainNext]_vars /\ WF_vars(Collect)

\* C17: each of these gc calls evicts an entry or discards at least one
\* stale record for good, and after finitely many of them num_items is at
\* most max_items.
C17_CollectDrains ==
    /\ [][call'.op = "collect" =>
            \/ call'.ret # None /\ num_items' = num_items - 1
            \/ call'.ret = None /\ Len(list') < Len(list)
         ]_vars
    /\ (call.op = "collect") ~> (num_items <= max_items)

\* A gc call of the series evicted nothing but discarded stale records, and
\* the cache is still over its capacity.
C17_Witness ==
    /\ call.op = "collect"
    /\ call.ret = None
    /\ call.iterations >= 2
    /\ num_items > max_items

\* ---- C18 ----
\* C18: a push of a key that has an entry never returns that key and never
\* removes it from the map, whatever the caller holds: the key is in the
\* map, with its value, when the push returns.
C18_RepushedKeyStays ==
    [][(call'.op = "push" /\ call'.key \in DOMAIN map) =>
        /\ call'.key \in DOMAIN map'
        /\ map'[call'.key].value = map[call'.key].value
        /\ call'.ret # None => call'.ret[1] # call'.key
      ]_vars

\* A push of a key that had an entry ran a pass over capacity with the
\* value held by nobody: the pass discarded the older record of the key and
\* stopped before the record just pushed.
C18_Witness ==
    /\ call.op = "push"
    /\ call.ret = None
    /\ call.iterations = 1
    /\ num_items > max_items
    /\ call.key \in DOMAIN map
    /\ map[call.key].count = 1
    /\ list = <<Record(call.key, call.value)>>
    /\ ~HeldOutside(ext, call.value)

\* ---- C19 ----
\* The call that ends in the next state pushes a key that has no entry, with
\* a value the caller does not hold while the call runs, into a cache whose
\* num_items equals max_items and whose every value the caller holds.
FullAndPinned ==
    /\ call'.op = "push"
    /\ call'.key \notin DOMAIN map
    /\ ~HeldOutside(ext', call'.value)
    /\ num_items = max_items
    /\ \A k \in DOMAIN map : HeldOutside(ext', map[k].value)

\* C19: a push of a new key with a value nobody outside holds, into a cache
\* at capacity whose every value is held outside, returns the pair just
\* pushed and leaves the map and num_items as they were before the call.
C19_PushedPairBounces ==
    [][FullAndPinned =>
        /\ call'.ret = Some(call'.key, call'.value)
        /\ map' = map
        /\ num_items' = num_items
      ]_vars

====
